---- MODULE Spec2Model ----
(***************************************************************************)
(* The movie catalogue API of src/src/routes/movies.py: the five request   *)
(* handlers, run by concurrent clients against one relational store.       *)
(*                                                                         *)
(* A handler is split at the awaits where it touches the store.  The store *)
(* is SQLite (get_sqlite_db): a transaction's writes, from its first flush *)
(* to its commit, are serialised against every other writer and invisible  *)
(* to every reader, so that stretch of a handler is one step.               *)
(* Dates are days counted from today.                                      *)
(***************************************************************************)
EXTENDS Integers, Sequences, FiniteSets, TLC

VARIABLES db, reqs

vars == <<db, reqs>>

\* ---------------------------------------------------------------- bounds

\* The largest movie id the store hands out (creations are admitted up to it).
MaxMovieId == 2
\* The largest page a client asks for.
MaxPage == 2
\* The largest per_page a client asks for (the route allows up to MaxPerPageAllowed).
MaxPerPage == 2

Clients == {"c1", "c2"}
\* The clients that list and fetch, and those that patch; all of them post and delete.
Readers == {"c1"}
Updaters == {"c1"}

\* ------------------------------------------------------ program constants

MaxFutureDays == 365
MaxPerPageAllowed == 20
MaxScore == 100
MaxNameLen == 255
MaxCountryLen == 3

None == "<null>"

MovieStatusEnum == {"Released", "Post Production", "In Production"}

UpdateFields == {"name", "date", "score", "overview", "status", "budget", "revenue"}

\* ------------------------------------------------------------- the store

EmptyStore ==
    [movies |-> {}, countries |-> {}, genres |-> {}, actors |-> {}, languages |-> {},
     movies_genres |-> {}, movies_actors |-> {}, movies_languages |-> {}]

MaxOf(S) == CHOOSE x \in S : \A y \in S : y <= x

\* The id the store gives the next row of a table: one past the largest.
NextId(rows) == IF rows = {} THEN 1 ELSE MaxOf({row.id : row \in rows}) + 1

\* A store with no constraint on (name, date).
MovieKeyTaken_unconstrained(movies, name, date, except_id) == FALSE

\* UniqueConstraint(name, date) on movies.
MovieKeyTaken(movies, name, date, except_id) ==
    \E m \in movies : m.id # except_id /\ m.name = name /\ m.date = date

\* The join rows of one movie, in the order they were appended.
RECURSIVE OrderedRefs(_)
OrderedRefs(rows) ==
    IF rows = {} THEN <<>>
    ELSE LET first == CHOOSE row \in rows : \A o \in rows : row.pos <= o.pos
         IN  <<first.ref_id>> \o OrderedRefs(rows \ {first})

RefsOf(join, movie_id) == OrderedRefs({row \in join : row.movie_id = movie_id})

RowById(rows, id) == CHOOSE row \in rows : row.id = id

RECURSIVE MapRows(_, _)
MapRows(ids, rows) ==
    IF ids = <<>> THEN <<>>
    ELSE <<RowById(rows, Head(ids))>> \o MapRows(Tail(ids), rows)

\* ------------------------------------------------------------ the schemas

\* MovieCreateSchema: the field constraints and the date validator.
CreateSchemaValid(p) ==
    /\ Len(p.name) <= MaxNameLen
    /\ p.date <= MaxFutureDays
    /\ p.score >= 0 /\ p.score <= MaxScore
    /\ p.status \in MovieStatusEnum
    /\ p.budget >= 0
    /\ p.revenue >= 0
    /\ Len(p.country) <= MaxCountryLen

\* MovieUpdateSchema: every field is Optional[...] with no default, so every
\* field is required (and may be null); status must be of the enum.
UpdateSchemaValid(data) ==
    /\ DOMAIN data = UpdateFields
    /\ data["status"] \in MovieStatusEnum \cup {None}

\* MovieDetailResponseSchema, from a movie row and its eagerly loaded relations.
\* (The routes import it as MovieDetailSchema, a name the schemas module does
\* not define; the response is taken to be this schema.)
Detail(store, m) ==
    [id |-> m.id, name |-> m.name, date |-> m.date, score |-> m.score,
     overview |-> m.overview, status |-> m.status, budget |-> m.budget,
     revenue |-> m.revenue,
     country |-> RowById(store.countries, m.country_id),
     genres |-> MapRows(RefsOf(store.movies_genres, m.id), store.genres),
     actors |-> MapRows(RefsOf(store.movies_actors, m.id), store.actors),
     languages |-> MapRows(RefsOf(store.movies_languages, m.id), store.languages)]

\* MovieShortResponse.
Short(m) ==
    [id |-> m.id, name |-> m.name, date |-> m.date, score |-> m.score,
     overview |-> m.overview]

\* ---------------------------------------------------------------- helpers

\* The link built under the prefix the API is mounted at.
_page_link_mounted(page, per_page) ==
    "/api/v1/theater/movies/?page=" \o ToString(page) \o "&per_page=" \o ToString(per_page)

_page_link(page, per_page) ==
    "/theater/movies/?page=" \o ToString(page) \o "&per_page=" \o ToString(per_page)

\* _get_movie_or_404: the movie with its relations, or 404.
_get_movie_or_404(store, movie_id) ==
    IF \E m \in store.movies : m.id = movie_id
    THEN [status |-> 200, body |-> Detail(store, RowById(store.movies, movie_id))]
    ELSE [status |-> 404, body |-> "Movie with the given ID was not found."]

\* ceil(total_items / per_page)
TotalPages(total_items, per_page) == (total_items + per_page - 1) \div per_page

\* order_by(id desc).offset(offset).limit(limit)
RECURSIVE DescRows(_)
DescRows(rows) ==
    IF rows = {} THEN <<>>
    ELSE LET top == CHOOSE row \in rows : \A o \in rows : o.id <= row.id
         IN  <<top>> \o DescRows(rows \ {top})

Slice(rows, offset, limit) ==
    LET all == DescRows(rows)
        last == IF offset + limit < Len(all) THEN offset + limit ELSE Len(all)
    IN  IF offset >= Len(all) THEN <<>> ELSE SubSeq(all, offset + 1, last)

RECURSIVE MapShort(_)
MapShort(rows) == IF rows = <<>> THEN <<>> ELSE <<Short(Head(rows))>> \o MapShort(Tail(rows))

\* ----------------------------------------------------------- the requests

Idle == [pc |-> "idle"]

\* A client sends its next request once the last one is answered.
Ready(c) == reqs[c].pc \in {"idle", "done"}

\* What a finished request answers: the HTTP status, the body, and the store
\* error (if any) that ended it.
Finish(rq, status, body, error) ==
    [rq EXCEPT !.pc = "done", !.status = status, !.body = body, !.error = error]

InFlightCreates == {c \in Clients : reqs[c].pc \in {"country", "persist"}}

\* ------------------------------------------------------------ GET /movies/

prev_page(page, per_page) == IF page > 1 THEN _page_link(page - 1, per_page) ELSE None

next_page(page, per_page, total_pages) ==
    IF page < total_pages THEN _page_link(page + 1, per_page) ELSE None

\* get_movies without its check of the slice.
get_movies_finish_unchecked(rq, movies) ==
    Finish(rq, 200,
           [movies |-> MapShort(movies),
            prev_page |-> prev_page(rq.page, rq.per_page),
            next_page |-> next_page(rq.page, rq.per_page, rq.total_pages),
            total_pages |-> rq.total_pages,
            total_items |-> rq.total_items],
           "")

\* The end of get_movies, from the fetched slice on.
get_movies_finish(rq, movies) ==
    IF movies = <<>>
    THEN Finish(rq, 404, "No movies found.", "")
    ELSE Finish(rq, 200,
                [movies |-> MapShort(movies),
                 prev_page |-> prev_page(rq.page, rq.per_page),
                 next_page |-> next_page(rq.page, rq.per_page, rq.total_pages),
                 total_pages |-> rq.total_pages,
                 total_items |-> rq.total_items],
                "")

\* Query validation, the count read and the two checks on it.  The request
\* keeps the handler's locals; seen and fetched are the number of movies stored
\* and the length of the slice at the slice read.
get_movies_count(c, page, per_page) ==
    /\ Ready(c)
    /\ LET rq == [pc |-> "slice", kind |-> "list", page |-> page, per_page |-> per_page,
                  total_items |-> 0, total_pages |-> 0, seen |-> 0, fetched |-> 0,
                  status |-> 0, body |-> None, error |-> ""]
           total_items == Cardinality(db.movies)
           total_pages == TotalPages(total_items, per_page)
           counted == [rq EXCEPT !.total_items = total_items, !.total_pages = total_pages]
       IN  reqs' = [reqs EXCEPT ![c] =
                IF page < 1 \/ per_page < 1 \/ per_page > MaxPerPageAllowed
                THEN Finish(rq, 422, "validation error", "")
                ELSE IF total_items = 0
                THEN Finish([rq EXCEPT !.total_items = total_items], 404, "No movies found.", "")
                ELSE IF page > total_pages
                THEN Finish(counted, 404, "No movies found.", "")
                ELSE counted]
    /\ UNCHANGED db

\* The slice read and the answer.
get_movies_slice(c) ==
    /\ reqs[c].pc = "slice"
    /\ LET rq == reqs[c]
           movies == Slice(db.movies, (rq.page - 1) * rq.per_page, rq.per_page)
       IN  reqs' = [reqs EXCEPT ![c] =
                get_movies_finish([rq EXCEPT !.seen = Cardinality(db.movies),
                                              !.fetched = Len(movies)], movies)]
    /\ UNCHANGED db

\* ------------------------------------------------- GET /movies/{movie_id}/

get_movie_by_id(c, movie_id) ==
    /\ Ready(c)
    /\ LET rq == [pc |-> "done", kind |-> "get", movie_id |-> movie_id,
                  status |-> 0, body |-> None, error |-> ""]
           got == _get_movie_or_404(db, movie_id)
       IN  reqs' = [reqs EXCEPT ![c] = Finish(rq, got.status, got.body, "")]
    /\ UNCHANGED db

\* ----------------------------------------------------------- POST /movies/

\* create_movie with its duplicate check left out.
existing_unchecked(store, name, date) == {}

\* select(MovieModel).where(name == ..., date == ...)
existing(store, name, date) == {m \in store.movies : m.name = name /\ m.date = date}

\* select(CountryModel).where(code == ...)
FindByCode(rows, code) == {row \in rows : row.code = code}

\* The lookup with its where clause left out.
FindByName_unfiltered(rows, name) == rows

\* select(GenreModel | ActorModel | LanguageModel).where(name == ...)
FindByName(rows, name) == {row \in rows : row.name = name}

\* db.scalar: the first row of the result.
Scalar(rows) == CHOOSE row \in rows : \A o \in rows : row.id <= o.id

\* The unique natural keys of the reference tables.
CodeTaken(rows, code) == \E row \in rows : row.code = code
NameTaken(rows, name) == \E row \in rows : row.name = name

\* The row built with budget and revenue exchanged.
NewMovie_swapped(p, id, country_id) ==
    [id |-> id, name |-> p.name, date |-> p.date, score |-> p.score,
     overview |-> p.overview, status |-> p.status, budget |-> p.revenue,
     revenue |-> p.budget, country_id |-> country_id]

\* MovieModel(name=..., ..., country=country)
NewMovie(p, id, country_id) ==
    [id |-> id, name |-> p.name, date |-> p.date, score |-> p.score,
     overview |-> p.overview, status |-> p.status, budget |-> p.budget,
     revenue |-> p.revenue, country_id |-> country_id]

\* One pass of a genres / actors / languages loop: look the name up, create and
\* flush the row when there is none, append it to the movie's relation.
\* tx is the transaction: its view of the store, and whether a flush failed.
GetOrCreate(tx, table, join, movie_id, name) ==
    LET rows == tx.store[table]
        found == FindByName(rows, name)
        fresh == [id |-> NextId(rows), name |-> name]
        ref == IF found # {} THEN Scalar(found) ELSE fresh
        pos == Cardinality({row \in tx.store[join] : row.movie_id = movie_id}) + 1
        link == [movie_id |-> movie_id, pos |-> pos, ref_id |-> ref.id]
    IN  IF ~tx.ok THEN tx
        ELSE IF found = {} /\ NameTaken(rows, name)
        THEN [tx EXCEPT !.ok = FALSE, !.error = "IntegrityError: " \o table \o ".name"]
        ELSE [tx EXCEPT !.store = [tx.store EXCEPT
                 ![table] = IF found # {} THEN rows ELSE rows \cup {fresh},
                 ![join] = tx.store[join] \cup {link}]]

RECURSIVE ResolveAll(_, _, _, _, _)
ResolveAll(tx, table, join, movie_id, names) ==
    IF names = <<>> THEN tx
    ELSE ResolveAll(GetOrCreate(tx, table, join, movie_id, Head(names)),
                    table, join, movie_id, Tail(names))

\* The country flush (when the lookup found none), the movie flush, the three
\* loops and the commit: the transaction of create_movie.
CreateTx(store, p, country_id) ==
    LET new_country == [id |-> NextId(store.countries), code |-> p.country, name |-> None]
        cid == IF country_id = 0 THEN new_country.id ELSE country_id
        s1 == IF country_id = 0
              THEN [store EXCEPT !.countries = store.countries \cup {new_country}]
              ELSE store
        mid == NextId(s1.movies)
        s2 == [s1 EXCEPT !.movies = s1.movies \cup {NewMovie(p, mid, cid)}]
        t0 == [store |-> s2, ok |-> TRUE, error |-> "", movie_id |-> mid]
        t1 == ResolveAll(t0, "genres", "movies_genres", mid, p.genres)
        t2 == ResolveAll(t1, "actors", "movies_actors", mid, p.actors)
        t3 == ResolveAll(t2, "languages", "movies_languages", mid, p.languages)
    IN  IF country_id = 0 /\ CodeTaken(store.countries, p.country)
        THEN [store |-> store, ok |-> FALSE, error |-> "IntegrityError: countries.code",
              movie_id |-> 0]
        ELSE IF MovieKeyTaken(s1.movies, p.name, p.date, 0)
        THEN [store |-> store, ok |-> FALSE, error |-> "IntegrityError: movies(name, date)",
              movie_id |-> 0]
        ELSE t3

\* Body validation, the date check and the duplicate check.
create_movie_check(c, p) ==
    /\ Ready(c)
    /\ NextId(db.movies) + Cardinality(InFlightCreates) <= MaxMovieId
    /\ LET rq == [pc |-> "country", kind |-> "create", payload |-> p,
                  country_id |-> 0, movie_id |-> 0, wrote |-> FALSE,
                  status |-> 0, body |-> None, error |-> ""]
       IN  reqs' = [reqs EXCEPT ![c] =
                IF ~CreateSchemaValid(p)
                THEN Finish(rq, 422, "validation error", "")
                ELSE IF p.date > MaxFutureDays
                THEN Finish(rq, 400, "Invalid input data.", "")
                ELSE IF existing(db, p.name, p.date) # {}
                THEN Finish(rq, 409,
                            "A movie with the name '" \o p.name \o "' and release date '"
                                \o ToString(p.date) \o "' already exists.", "")
                ELSE rq]
    /\ UNCHANGED db

\* The country lookup.
create_movie_country(c) ==
    /\ reqs[c].pc = "country"
    /\ LET found == FindByCode(db.countries, reqs[c].payload.country)
       IN  reqs' = [reqs EXCEPT ![c].pc = "persist",
                                ![c].country_id = IF found # {} THEN Scalar(found).id ELSE 0]
    /\ UNCHANGED db

\* From the first flush to the commit.  A failed flush raises out of the
\* handler and the session's transaction is rolled back.
create_movie_persist(c) ==
    /\ reqs[c].pc = "persist"
    /\ LET tx == CreateTx(db, reqs[c].payload, reqs[c].country_id)
       IN  IF tx.ok
           THEN /\ db' = tx.store
                /\ reqs' = [reqs EXCEPT ![c].pc = "reread", ![c].movie_id = tx.movie_id,
                                        ![c].wrote = TRUE]
           ELSE /\ db' = db
                /\ reqs' = [reqs EXCEPT ![c] =
                       Finish(reqs[c], 500, "Internal Server Error", tx.error)]

\* The re-read after the commit, and the answer.
create_movie_reread(c) ==
    /\ reqs[c].pc = "reread"
    /\ LET got == _get_movie_or_404(db, reqs[c].movie_id)
       IN  reqs' = [reqs EXCEPT ![c] =
                Finish(reqs[c], IF got.status = 200 THEN 201 ELSE got.status, got.body, "")]
    /\ UNCHANGED db

\* ------------------------------------------------ PATCH /movies/{movie_id}/

\* The handler's own checks of the fields the body holds.
UpdateDataValid(data) ==
    /\ ~("score" \in DOMAIN data /\ ~(0 <= data["score"] /\ data["score"] <= MaxScore))
    /\ ~("budget" \in DOMAIN data /\ data["budget"] < 0)
    /\ ~("revenue" \in DOMAIN data /\ data["revenue"] < 0)
    /\ ~("date" \in DOMAIN data /\ data["date"] > MaxFutureDays)

\* setattr(movie, field, value) for every field of the body.
ApplyData(row, data) ==
    [f \in DOMAIN row |-> IF f \in DOMAIN data THEN data[f] ELSE row[f]]

\* Body validation, db.get and the field checks.
update_movie_get(c, movie_id, data) ==
    /\ Ready(c)
    /\ LET rq == [pc |-> "commit", kind |-> "update", movie_id |-> movie_id,
                  data |-> data, loaded |-> None, wrote |-> FALSE,
                  status |-> 0, body |-> None, error |-> ""]
           found == {m \in db.movies : m.id = movie_id}
       IN  reqs' = [reqs EXCEPT ![c] =
                IF ~UpdateSchemaValid(data)
                THEN Finish(rq, 422, "validation error", "")
                ELSE IF found = {}
                THEN Finish(rq, 404, "Movie with the given ID was not found.", "")
                ELSE IF ~UpdateDataValid(data)
                THEN Finish([rq EXCEPT !.loaded = Scalar(found)], 400, "Invalid input data.", "")
                ELSE [rq EXCEPT !.loaded = Scalar(found)]]
    /\ UNCHANGED db

\* The commit: the UPDATE of the columns whose value changed, if any.
update_movie_commit(c) ==
    /\ reqs[c].pc = "commit"
    /\ reqs[c].kind = "update"
    /\ LET rq == reqs[c]
           new == ApplyData(rq.loaded, rq.data)
           changed == {f \in DOMAIN rq.data : new[f] # rq.loaded[f]}
           rows == {m \in db.movies : m.id = rq.movie_id}
           cur == Scalar(rows)
           row == [f \in DOMAIN cur |-> IF f \in changed THEN new[f] ELSE cur[f]]
           ok == Finish(rq, 200, "Movie updated successfully.", "")
       IN  IF changed = {}
           THEN db' = db /\ reqs' = [reqs EXCEPT ![c] = ok]
           ELSE IF rows = {}
           THEN /\ db' = db
                /\ reqs' = [reqs EXCEPT ![c] =
                       Finish(rq, 500, "Internal Server Error", "StaleDataError")]
           ELSE IF MovieKeyTaken(db.movies, row.name, row.date, row.id)
           THEN /\ db' = db
                /\ reqs' = [reqs EXCEPT ![c] =
                       Finish(rq, 500, "Internal Server Error",
                              "IntegrityError: movies(name, date)")]
           ELSE /\ db' = [db EXCEPT !.movies = (db.movies \ {cur}) \cup {row}]
                /\ reqs' = [reqs EXCEPT ![c] = [ok EXCEPT !.wrote = TRUE]]

\* ----------------------------------------------- DELETE /movies/{movie_id}/

\* A delete that takes every movie with it.
DeleteMovie_all(store, movie_id) ==
    [store EXCEPT !.movies = {}, !.movies_genres = {}, !.movies_actors = {},
                  !.movies_languages = {}]

\* db.delete(movie) and the commit: the movie's row and its join rows go.
DeleteMovie(store, movie_id) ==
    [store EXCEPT
        !.movies = {m \in store.movies : m.id # movie_id},
        !.movies_genres = {row \in store.movies_genres : row.movie_id # movie_id},
        !.movies_actors = {row \in store.movies_actors : row.movie_id # movie_id},
        !.movies_languages = {row \in store.movies_languages : row.movie_id # movie_id}]

\* db.get
delete_movie_get(c, movie_id) ==
    /\ Ready(c)
    /\ LET rq == [pc |-> "commit", kind |-> "delete", movie_id |-> movie_id,
                  wrote |-> FALSE, status |-> 0, body |-> None, error |-> ""]
       IN  reqs' = [reqs EXCEPT ![c] =
                IF \E m \in db.movies : m.id = movie_id
                THEN rq
                ELSE Finish(rq, 404, "Movie with the given ID was not found.", "")]
    /\ UNCHANGED db

\* The commit.  When another request deleted the row since the get, the DELETE
\* matches no row: the session either only warns or raises StaleDataError.
delete_movie_commit(c) ==
    /\ reqs[c].pc = "commit"
    /\ reqs[c].kind = "delete"
    /\ IF \E m \in db.movies : m.id = reqs[c].movie_id
       THEN /\ db' = DeleteMovie(db, reqs[c].movie_id)
            /\ reqs' = [reqs EXCEPT ![c] =
                   [Finish(reqs[c], 204, None, "") EXCEPT !.wrote = TRUE]]
       ELSE /\ db' = db
            /\ \E raised \in BOOLEAN :
                   reqs' = [reqs EXCEPT ![c] =
                       IF raised
                       THEN Finish(reqs[c], 500, "Internal Server Error", "StaleDataError")
                       ELSE Finish(reqs[c], 204, None, "")]

\* ------------------------------------------------------------- the clients

MkCreate(name, date, score, overview, status, budget, revenue, country, genres, actors, languages) ==
    [name |-> name, date |-> date, score |-> score, overview |-> overview,
     status |-> status, budget |-> budget, revenue |-> revenue, country |-> country,
     genres |-> genres, actors |-> actors, languages |-> languages]

\* The bodies the clients POST.
CreateInputs ==
    { MkCreate("A", 10, 85, "o1", "Released", 100, 300, "US",
               <<"g1", "g2">>, <<"a1">>, <<"en">>),
      MkCreate("A", 20, 0, None, "In Production", 7, 9, "UA",
               <<"g2", "g1", "g2">>, <<>>, <<"en">>),
      MkCreate("B", 366, 85, "o1", "Released", 100, 300, "US",
               <<"g1">>, <<>>, <<>>) }

MkUpdate(name, date, score, overview, status, budget, revenue) ==
    [f \in UpdateFields |->
        CASE f = "name" -> name [] f = "date" -> date [] f = "score" -> score
          [] f = "overview" -> overview [] f = "status" -> status
          [] f = "budget" -> budget [] f = "revenue" -> revenue]

\* The bodies the clients PATCH: no field, or all of them.
UpdateInputs ==
    { << >>,
      MkUpdate("A", 20, 12, "o3", "Released", 1, 2),
      MkUpdate("A", 10, 101, "o3", "Released", 1, 2) }

MovieIds == 1 .. MaxMovieId

Init ==
    /\ db = EmptyStore
    /\ reqs = [c \in Clients |-> Idle]

Next ==
    \/ \E c \in Readers, page \in 1 .. MaxPage, per_page \in 1 .. MaxPerPage :
           get_movies_count(c, page, per_page)
    \/ \E c \in Clients : get_movies_slice(c)
    \/ \E c \in Readers, movie_id \in MovieIds : get_movie_by_id(c, movie_id)
    \/ \E c \in Clients, p \in CreateInputs : create_movie_check(c, p)
    \/ \E c \in Clients : create_movie_country(c)
    \/ \E c \in Clients : create_movie_persist(c)
    \/ \E c \in Clients : create_movie_reread(c)
    \/ \E c \in Updaters, movie_id \in MovieIds, data \in UpdateInputs :
           update_movie_get(c, movie_id, data)
    \/ \E c \in Clients : update_movie_commit(c)
    \/ \E c \in Clients, movie_id \in MovieIds : delete_movie_get(c, movie_id)
    \/ \E c \in Clients : delete_movie_commit(c)

Spec == Init /\ [][Next]_vars

\* ------------------------------------------------------------- properties

IsDone(c, kind) == reqs[c].pc = "done" /\ reqs[c].kind = kind

\* The step in which client c sends a request of the kind and its first stretch runs.
Starts(c, kind) == Ready(c) /\ reqs'[c] # reqs[c] /\ reqs'[c].kind = kind

\* The step in which client c's request goes from one place to the next.
Moves(c, from, kind) ==
    reqs[c].pc = from /\ reqs[c].kind = kind /\ reqs'[c] # reqs[c]

Range(seq) == {seq[i] : i \in DOMAIN seq}

RECURSIVE NamesOf(_)
NamesOf(rows) == IF rows = <<>> THEN <<>> ELSE <<Head(rows).name>> \o NamesOf(Tail(rows))

\* C1: in every reachable state no two stored movies have the same (name, date).
C1_UniqueNameDate ==
    \A m1 \in db.movies : \A m2 \in db.movies :
        (m1.name = m2.name /\ m1.date = m2.date) => m1 = m2

\* Two movies are stored and an update that would have made their keys equal
\* was refused by the store.
C1_Witness ==
    /\ Cardinality(db.movies) = 2
    /\ \E c \in Clients :
           /\ IsDone(c, "update")
           /\ reqs[c].error = "IntegrityError: movies(name, date)"

\* C2: a create_movie with a valid body whose (name, date) is that of a stored
\* movie answers 409 and adds no row to any table.
C2_DuplicateCreateIsConflict ==
    [][\A c \in Clients :
          (/\ Starts(c, "create")
           /\ CreateSchemaValid(reqs'[c].payload)
           /\ \E m \in db.movies : /\ m.name = reqs'[c].payload.name
                                 /\ m.date = reqs'[c].payload.date)
          => (reqs'[c].pc = "done" /\ reqs'[c].status = 409 /\ db' = db)]_vars

\* A create was answered 409 while the movie of its name and date is stored.
C2_Witness ==
    \E c \in Clients :
        /\ IsDone(c, "create")
        /\ reqs[c].status = 409
        /\ \E m \in db.movies : /\ m.name = reqs[c].payload.name
                                /\ m.date = reqs[c].payload.date

\* C3: a create_movie whose flush hits the store's (name, date) constraint,
\* after passing the duplicate check, answers 409.
C3_RaceIsConflict ==
    \A c \in Clients :
        (IsDone(c, "create") /\ reqs[c].error = "IntegrityError: movies(name, date)")
        => reqs[c].status = 409

\* C4: get_movies answers 404 when the count is 0, when the page is past the
\* last one and when the slice is empty; an answer of 200 carries between 1 and
\* per_page movies and total_pages = ceil(total_items / per_page).
C4_ListNotFoundAndBounds ==
    \A c \in Clients :
        (IsDone(c, "list") /\ reqs[c].status # 422)
        => LET rq == reqs[c]
           IN  /\ rq.status \in {200, 404}
               /\ rq.total_items = 0 => rq.status = 404
               /\ (rq.page - 1) * rq.per_page >= rq.total_items => rq.status = 404
               /\ rq.fetched = 0 => rq.status = 404
               /\ rq.status = 200 =>
                     /\ Len(rq.body.movies) = rq.fetched
                     /\ 1 <= Len(rq.body.movies)
                     /\ Len(rq.body.movies) <= rq.per_page
                     /\ rq.body.total_items = rq.total_items
                     /\ rq.body.total_pages * rq.per_page >= rq.total_items
                     /\ (rq.body.total_pages - 1) * rq.per_page < rq.total_items

\* A list was answered 200 although a movie was deleted between its count and
\* its slice: it carries fewer movies than its total_items tells.
C4_Witness ==
    \E c \in Clients :
        /\ IsDone(c, "list")
        /\ reqs[c].status = 200
        /\ reqs[c].seen < reqs[c].total_items
        /\ Len(reqs[c].body.movies) < reqs[c].total_items

\* C5: in an answer of 200, prev_page is absent iff page = 1 and else the link
\* of page - 1; next_page is absent iff page = total_pages and else the link of
\* page + 1; the link is "/theater/movies/?page=<n>&per_page=<m>".
C5_PageLinks ==
    \A c \in Clients :
        (IsDone(c, "list") /\ reqs[c].status = 200)
        => LET rq == reqs[c]
               tail == "&per_page=" \o ToString(rq.per_page)
           IN  /\ rq.body.prev_page = None <=> rq.page = 1
               /\ rq.page # 1 =>
                     rq.body.prev_page =
                         "/theater/movies/?page=" \o ToString(rq.page - 1) \o tail
               /\ rq.body.next_page = None <=> rq.page = rq.body.total_pages
               /\ rq.page # rq.body.total_pages =>
                     rq.body.next_page =
                         "/theater/movies/?page=" \o ToString(rq.page + 1) \o tail

\* The last of two pages was answered: a prev_page link and no next_page.
C5_Witness ==
    \E c \in Clients :
        /\ IsDone(c, "list")
        /\ reqs[c].status = 200
        /\ reqs[c].page = 2
        /\ reqs[c].body.prev_page = "/theater/movies/?page=1&per_page=1"
        /\ reqs[c].body.next_page = None

UniqueBy(rows, key) == \A r1 \in rows : \A r2 \in rows : r1[key] = r2[key] => r1 = r2

\* What a committed create of names did to one reference table and its join.
ReusesRows(table, join, names, movie_id) ==
    /\ \A row \in db[table] : row \in db'[table]
    /\ {row.name : row \in db'[table]} = {row.name : row \in db[table]} \cup Range(names)
    /\ \A row \in db[table] :
           row.name \in Range(names)
           => \E link \in db'[join] : link.movie_id = movie_id /\ link.ref_id = row.id
    /\ \A link \in db'[join] :
           link.movie_id = movie_id
           => \E row \in db'[table] : row.id = link.ref_id /\ row.name \in Range(names)

\* C6: there is at most one country per code and one genre, actor and language
\* per name; a create that names an existing key links the movie to the
\* existing row, and a name repeated in a list makes one row.
C6_ReferenceRowsReused ==
    [][/\ UniqueBy(db'.countries, "code")
       /\ UniqueBy(db'.genres, "name")
       /\ UniqueBy(db'.actors, "name")
       /\ UniqueBy(db'.languages, "name")
       /\ \A c \in Clients :
             (Moves(c, "persist", "create") /\ reqs'[c].pc = "reread")
             => LET p == reqs[c].payload
                    id == reqs'[c].movie_id
                    m == RowById(db'.movies, id)
                IN  /\ \A row \in db.countries : row \in db'.countries
                    /\ \E row \in db'.countries : row.code = p.country /\ row.id = m.country_id
                    /\ ReusesRows("genres", "movies_genres", p.genres, id)
                    /\ ReusesRows("actors", "movies_actors", p.actors, id)
                    /\ ReusesRows("languages", "movies_languages", p.languages, id)]_vars

\* A create whose genre list repeats a name has committed, and a genre row is
\* linked to two movies.
C6_Witness ==
    /\ \E c \in Clients :
           /\ reqs[c].pc = "reread"
           /\ Cardinality(Range(reqs[c].payload.genres)) < Len(reqs[c].payload.genres)
    /\ \E l1 \in db.movies_genres : \E l2 \in db.movies_genres :
           l1.ref_id = l2.ref_id /\ l1.movie_id # l2.movie_id

\* C7: an update_movie whose body holds no field answers 400, "Invalid input
\* data", and leaves the stored movie as it is.
C7_EmptyUpdateIsBadRequest ==
    \A c \in Clients :
        (IsDone(c, "update") /\ DOMAIN reqs[c].data = {})
        => (reqs[c].status = 400 /\ ~reqs[c].wrote)

\* C8: delete_movie of an id the store does not hold answers 404 and changes
\* nothing; of a stored id it removes that movie and its join rows and nothing
\* else, and a get_movie_by_id of the id then answers 404.
C8_DeleteFrame ==
    [][\A c \in Clients :
          /\ (Starts(c, "delete") /\ ~\E m \in db.movies : m.id = reqs'[c].movie_id)
             => (reqs'[c].pc = "done" /\ reqs'[c].status = 404 /\ db' = db)
          /\ (Moves(c, "commit", "delete") /\ \E m \in db.movies : m.id = reqs[c].movie_id)
             => LET id == reqs[c].movie_id
                    Others(join) == {row \in join : row.movie_id # id}
                IN  /\ reqs'[c].status = 204
                    /\ db'.movies = {m \in db.movies : m.id # id}
                    /\ db'.movies_genres = Others(db.movies_genres)
                    /\ db'.movies_actors = Others(db.movies_actors)
                    /\ db'.movies_languages = Others(db.movies_languages)
                    /\ db'.countries = db.countries
                    /\ db'.genres = db.genres
                    /\ db'.actors = db.actors
                    /\ db'.languages = db.languages
                    /\ _get_movie_or_404(db', id).status = 404]_vars

\* A delete was answered 204 and another movie, with its genres, is still stored.
C8_Witness ==
    \E c \in Clients :
        /\ IsDone(c, "delete")
        /\ reqs[c].status = 204
        /\ reqs[c].wrote
        /\ ~\E m \in db.movies : m.id = reqs[c].movie_id
        /\ \E m \in db.movies : \E link \in db.movies_genres : link.movie_id = m.id

\* C9: a create_movie or update_movie that ends in a failure has left the
\* committed store as it was.
C9_FailureLeavesStore ==
    \A c \in Clients :
        (/\ reqs[c].pc = "done"
         /\ reqs[c].kind \in {"create", "update"}
         /\ reqs[c].status >= 400)
        => ~reqs[c].wrote

====
